---- MODULE Spec2Model ----
(***************************************************************************)
(* Big-O calculator: the measurement engine (runAnalysis), the input       *)
(* generator (generateInputArray) and the complexity classifier            *)
(* (determineComplexity) of src/src/calculator.js, and the form of the     *)
(* web front-end (App and handleSubmit of src/web-frontend/src/App.js).    *)
(*                                                                         *)
(* Numbers.  JavaScript numbers are modelled by exact arithmetic:          *)
(*   - an integer of any size is a record [neg, mag], mag its magnitude as *)
(*     a little-endian sequence of base-10000 digits (<<>> is zero);       *)
(*   - a fraction is a numerator and a positive denominator of that kind;  *)
(*   - an RMSE r is kept as the fraction r^2 it is the square root of      *)
(*     (Math.sqrt is increasing, so every comparison the code makes        *)
(*     between RMSEs is decided exactly on the squares), or is NaN.        *)
(* Durations given to the classifier are whole ticks, TicksPerMs ticks to  *)
(* the millisecond.  Exact arithmetic leaves out the rounding error of     *)
(* IEEE doubles: a fit that is exact has RMSE 0 here.                      *)
(*                                                                         *)
(* Specifications.                                                         *)
(*   Spec          one call of runAnalysis; every invocation of the        *)
(*                 algorithm is a call and a return, or a throw;           *)
(*   SpecTerminating  Spec with weak fairness of its steps;                *)
(*   SpecClassify  determineComplexity called, and called again, on a      *)
(*                 DataPoint sequence drawn from DataSets;                 *)
(*   SpecForm      the front-end's form submitted, any number of times,    *)
(*                 with weak fairness of handleSubmit's own steps.         *)
(***************************************************************************)
EXTENDS Integers, Sequences, FiniteSets, TLC

\* ------------------------------------------------------------------------
\* Bounds of the model
\* ------------------------------------------------------------------------
MaxSizes == 2       \* longest inputSizes list given to runAnalysis
MaxSize == 1        \* largest requested size given to runAnalysis
MaxPoints == 4      \* longest DataPoint sequence given to determineComplexity
MaxTime == 2        \* largest duration pattern value of a DataPoint

\* ------------------------------------------------------------------------
\* Program constants
\* ------------------------------------------------------------------------
WarmupIterations == 100
CalibrationMinMs == 5
CalibrationCap == 1000000
BatchTargetMs == 15
DefaultIterations == 10

None == "none"

\* ------------------------------------------------------------------------
\* Exact integers
\* ------------------------------------------------------------------------
Base == 10000

RECURSIVE Trim(_)
Trim(a) ==
  IF a = <<>> THEN a
  ELSE IF a[Len(a)] = 0 THEN Trim(SubSeq(a, 1, Len(a) - 1)) ELSE a

RECURSIVE MagOf(_)
MagOf(k) == IF k = 0 THEN <<>> ELSE <<k % Base>> \o MagOf(k \div Base)

Digit(a, i) == IF i <= Len(a) THEN a[i] ELSE 0

RECURSIVE MagAddFrom(_, _, _, _)
MagAddFrom(a, b, i, carry) ==
  IF i > Len(a) /\ i > Len(b)
  THEN (IF carry = 0 THEN <<>> ELSE <<carry>>)
  ELSE LET s == Digit(a, i) + Digit(b, i) + carry
       IN <<s % Base>> \o MagAddFrom(a, b, i + 1, s \div Base)

MagAdd(a, b) ==
  IF a = <<>> THEN b ELSE IF b = <<>> THEN a ELSE MagAddFrom(a, b, 1, 0)

RECURSIVE MagCmpFrom(_, _, _)
MagCmpFrom(a, b, i) ==
  IF i = 0 THEN 0
  ELSE IF a[i] < b[i] THEN -1
  ELSE IF a[i] > b[i] THEN 1
  ELSE MagCmpFrom(a, b, i - 1)

\* -1, 0 or 1 as a < b, a = b or a > b
MagCmp(a, b) ==
  IF Len(a) < Len(b) THEN -1
  ELSE IF Len(a) > Len(b) THEN 1
  ELSE MagCmpFrom(a, b, Len(a))

RECURSIVE MagSubFrom(_, _, _, _)
MagSubFrom(a, b, i, borrow) ==
  IF i > Len(a) THEN <<>>
  ELSE LET s == a[i] - Digit(b, i) - borrow
       IN IF s < 0
          THEN <<s + Base>> \o MagSubFrom(a, b, i + 1, 1)
          ELSE <<s>> \o MagSubFrom(a, b, i + 1, 0)

\* a - b for a >= b
MagSub(a, b) == IF b = <<>> THEN a ELSE Trim(MagSubFrom(a, b, 1, 0))

RECURSIVE MagMulDigitFrom(_, _, _, _)
MagMulDigitFrom(a, d, i, carry) ==
  IF i > Len(a) THEN (IF carry = 0 THEN <<>> ELSE <<carry>>)
  ELSE LET p == a[i] * d + carry
       IN <<p % Base>> \o MagMulDigitFrom(a, d, i + 1, p \div Base)

RECURSIVE MagMulFrom(_, _, _)
MagMulFrom(a, b, j) ==
  IF j > Len(b) THEN <<>>
  ELSE LET rest == MagMulFrom(a, b, j + 1)
           row == IF b[j] = 0 THEN <<>> ELSE MagMulDigitFrom(a, b[j], 1, 0)
       IN MagAdd(row, IF rest = <<>> THEN <<>> ELSE <<0>> \o rest)

MagMul(a, b) ==
  IF a = <<>> \/ b = <<>> THEN <<>>
  ELSE IF Len(a) >= Len(b) THEN MagMulFrom(a, b, 1) ELSE MagMulFrom(b, a, 1)

MagLess(a, b) == MagCmp(a, b) < 0

MagLeq(a, b) == MagCmp(a, b) <= 0

Abs(k) == IF k < 0 THEN -k ELSE k

IntOf(k) == [neg |-> k < 0, mag |-> MagOf(Abs(k))]

IntMk(neg, mag) == [neg |-> neg /\ mag # <<>>, mag |-> mag]

IntNeg(x) == IntMk(~x.neg, x.mag)

IntAdd(x, y) ==
  IF x.neg = y.neg THEN IntMk(x.neg, MagAdd(x.mag, y.mag))
  ELSE IF MagCmp(x.mag, y.mag) >= 0 THEN IntMk(x.neg, MagSub(x.mag, y.mag))
  ELSE IntMk(y.neg, MagSub(y.mag, x.mag))

IntSub(x, y) == IntAdd(x, IntNeg(y))

IntMul(x, y) == IntMk(x.neg # y.neg, MagMul(x.mag, y.mag))

IntIsZero(x) == x.mag = <<>>

\* ------------------------------------------------------------------------
\* Non-negative fractions, and RMSE values
\* ------------------------------------------------------------------------
TicksPerMs == 4000

Frac(num, den) == [num |-> num, den |-> den]

FracOfInt(k) == Frac(MagOf(k), MagOf(1))

FracMul(f, g) == Frac(MagMul(f.num, g.num), MagMul(f.den, g.den))

\* a duration in milliseconds, in ticks
Ms(f) == Frac(MagMul(f.num, MagOf(TicksPerMs)), f.den)

\* The RMSE whose square is num/den (in ticks squared), or NaN.
Rmse(num, den) == [nan |-> FALSE, num |-> num, den |-> den]

NaNRmse == [nan |-> TRUE, num |-> <<>>, den |-> <<1>>]

RmseIsZero(r) == ~r.nan /\ r.num = <<>>

\* a.rmse < b.rmse (false when either is NaN, as every comparison with NaN)
RmseLess(a, b) ==
  /\ ~a.nan
  /\ ~b.nan
  /\ MagLess(MagMul(a.num, b.den), MagMul(b.num, a.den))

\* a.rmse < k * b.rmse, for a fraction k
RmseLessTimes(a, k, b) ==
  /\ ~a.nan
  /\ ~b.nan
  /\ MagLess(MagMul(MagMul(a.num, b.den), MagMul(k.den, k.den)),
             MagMul(MagMul(b.num, a.den), MagMul(k.num, k.num)))

\* a.rmse < f, for a fraction f of ticks
RmseBelow(a, f) ==
  /\ ~a.nan
  /\ MagLess(MagMul(a.num, MagMul(f.den, f.den)),
             MagMul(a.den, MagMul(f.num, f.num)))

\* ------------------------------------------------------------------------
\* simple-statistics and Math, as determineComplexity uses them
\* ------------------------------------------------------------------------
RECURSIVE SumInts(_)
SumInts(xs) == IF xs = <<>> THEN IntOf(0) ELSE IntAdd(xs[1], SumInts(Tail(xs)))

RECURSIVE MaxOf(_)
MaxOf(xs) ==
  IF Len(xs) = 1 THEN xs[1]
  ELSE LET rest == MaxOf(Tail(xs)) IN IF xs[1] >= rest THEN xs[1] ELSE rest

\* Math.log(n) for n = 2^a * 5^b, n >= 1, in units of 1/10000: a * ln 2 +
\* b * ln 5.  A least-squares line's predictions do not change when x is
\* rescaled, so for sizes that are all powers of two, or all powers of ten,
\* the fits are exactly those of the natural logarithm.
Ln2 == 6931
Ln5 == 16094

RECURSIVE MathLog(_)
MathLog(n) ==
  IF n = 1 THEN 0
  ELSE IF n % 2 = 0 THEN Ln2 + MathLog(n \div 2)
  ELSE Ln5 + MathLog(n \div 5)

\* ss.mean(x) = sum(x) / x.length, as a fraction
Mean(xs) ==
  Frac(SumInts([i \in DOMAIN xs |-> IntOf(xs[i])]).mag, MagOf(Len(xs)))

\* The least-squares line through two or more points, from the sums:
\*   slope     = (N*sumXY - sumX*sumY) / (N*sumXX - sumX*sumX)
\*   intercept = sumY/N - (slope*sumX)/N
\* as m / den and b / den, and 0/0 = NaN when all x are equal.
SlopeIntercept(N, sumX, sumY, mNum, mDen) ==
  IF IntIsZero(mDen)
  THEN [nan |-> TRUE, m |-> IntOf(0), b |-> IntOf(0), den |-> MagOf(1)]
  ELSE [nan |-> FALSE,
        m |-> IntMul(N, mNum),
        b |-> IntSub(IntMul(sumY, mDen), IntMul(mNum, sumX)),
        den |-> IntMul(N, mDen).mag]

LeastSquares(N, sumX, sumY, sumXX, sumXY) ==
  SlopeIntercept(N, sumX, sumY,
                 IntSub(IntMul(N, sumXY), IntMul(sumX, sumY)),
                 IntSub(IntMul(N, sumXX), IntMul(sumX, sumX)))

\* ss.linearRegression(data), data a sequence of <<x, y>>: for a single
\* point the slope is 0 and the intercept its y.
LinearRegression(data) ==
  IF Len(data) = 1
  THEN [nan |-> FALSE, m |-> IntOf(0), b |-> IntOf(data[1][2]), den |-> MagOf(1)]
  ELSE LeastSquares(
         IntOf(Len(data)),
         SumInts([i \in DOMAIN data |-> IntOf(data[i][1])]),
         SumInts([i \in DOMAIN data |-> IntOf(data[i][2])]),
         SumInts([i \in DOMAIN data |-> IntMul(IntOf(data[i][1]), IntOf(data[i][1]))]),
         SumInts([i \in DOMAIN data |-> IntMul(IntOf(data[i][1]), IntOf(data[i][2]))]))

\* ss.linearRegressionLine(model)(x) = b + m * x, as a numerator over
\* model.den
LinearRegressionLine(model, x) == IntAdd(model.b, IntMul(model.m, IntOf(x)))

SquareOf(e) == IntMul(e, e)

\* calculateRMSE(actual, predicted): predicted[i] is predNum[i] / predDen
CalculateRMSE(actual, predNan, predNum, predDen) ==
  IF predNan THEN NaNRmse
  ELSE Rmse(SumInts([i \in DOMAIN actual |->
                       SquareOf(IntSub(IntMul(IntOf(actual[i]), IntMk(FALSE, predDen)),
                                       predNum[i]))]).mag,
            MagMul(MagOf(Len(actual)), MagMul(predDen, predDen)))

\* the sum of the squares of N * x - total
SumSquaredDeviations(xs, N, total) ==
  SumInts([i \in DOMAIN xs |-> SquareOf(IntSub(IntMul(N, IntOf(xs[i])), total))])

\* ss.variance(x): the mean of the squared deviations from the mean
Variance(xs) ==
  Frac(SumSquaredDeviations(xs, IntOf(Len(xs)),
                            SumInts([i \in DOMAIN xs |-> IntOf(xs[i])])).mag,
       MagOf(Len(xs) * Len(xs) * Len(xs)))

\* ------------------------------------------------------------------------
\* determineComplexity(dataPoints): dataPoints a sequence of [n, time],
\* n of the form 2^a * 5^b or n <= 0, time in ticks
\* ------------------------------------------------------------------------
Constant == "O(1) - Constant"
Logarithmic == "O(log n) - Logarithmic"
Linear == "O(n) - Linear"
Linearithmic == "O(n log n) - Linear-ithmic"
Quadratic == "O(n^2) - Quadratic"

\* the transformFn arguments of getRegressionRMSE
Transform(kind, n) ==
  CASE kind = Linear -> n
    [] kind = Quadratic -> n * n
    [] kind = Logarithmic -> MathLog(n)
    [] kind = Linearithmic -> n * MathLog(n)

TimeValuesOf(dataPoints) == [i \in DOMAIN dataPoints |-> dataPoints[i].time]

\* the RMSE of the predictions of `model`, the regression on transformed sizes
PredictionRMSE(dataPoints, kind, model) ==
  CalculateRMSE(TimeValuesOf(dataPoints), model.nan,
                [i \in DOMAIN dataPoints |->
                   LinearRegressionLine(model, Transform(kind, dataPoints[i].n))],
                model.den)

\* Math.log(0) is -Infinity and Math.log of a negative number is NaN, so
\* transformFn(n) is not finite for n <= 0 when it takes the logarithm:
\* -Infinity or NaN for Math.log(n), NaN (0 * -Infinity) for n * Math.log(n).
NonFiniteTransform(kind, n) == kind \in {Logarithmic, Linearithmic} /\ n <= 0

\* A transformed size that is not finite makes the sums of ss.linearRegression
\* (Infinity - Infinity in the slope's denominator), or for a single point
\* the product 0 * x of the line, NaN: every prediction and the RMSE are NaN.
GetRegressionRMSE(dataPoints, kind) ==
  IF \E i \in DOMAIN dataPoints : NonFiniteTransform(kind, dataPoints[i].n)
  THEN NaNRmse
  ELSE PredictionRMSE(dataPoints, kind,
                      LinearRegression([i \in DOMAIN dataPoints |->
                                          <<Transform(kind, dataPoints[i].n),
                                            dataPoints[i].time>>]))

\* the RMSE of predicting meanTime everywhere
MeanRMSE(timeValues, meanTime) ==
  CalculateRMSE(timeValues, FALSE,
                [i \in DOMAIN timeValues |-> IntMk(FALSE, meanTime.num)],
                meanTime.den)

ConstantRMSE(dataPoints) ==
  MeanRMSE(TimeValuesOf(dataPoints), Mean(TimeValuesOf(dataPoints)))

Models(dataPoints) ==
  << [type |-> Constant, rmse |-> ConstantRMSE(dataPoints), complexity |-> 1],
     [type |-> Logarithmic, rmse |-> GetRegressionRMSE(dataPoints, Logarithmic),
      complexity |-> 2],
     [type |-> Linear, rmse |-> GetRegressionRMSE(dataPoints, Linear),
      complexity |-> 3],
     [type |-> Linearithmic, rmse |-> GetRegressionRMSE(dataPoints, Linearithmic),
      complexity |-> 4],
     [type |-> Quadratic, rmse |-> GetRegressionRMSE(dataPoints, Quadratic),
      complexity |-> 5] >>

\* The comparator (a, b) => a.rmse - b.rmse puts a before b exactly when the
\* difference is negative; a NaN difference counts as 0.
SortsBefore(a, b) == RmseLess(a.rmse, b.rmse)

\* m inserted into the sorted sequence after every element it does not sort
\* before
RECURSIVE InsertSorted(_, _)
InsertSorted(sorted, m) ==
  IF sorted = <<>> THEN <<m>>
  ELSE IF SortsBefore(m, sorted[Len(sorted)])
  THEN Append(InsertSorted(SubSeq(sorted, 1, Len(sorted) - 1), m),
              sorted[Len(sorted)])
  ELSE Append(sorted, m)

\* Array.prototype.sort with that comparator: a stable sort.  When an RMSE is
\* NaN the comparator is not consistent; the Logarithmic and Linearithmic
\* RMSEs (second and fourth of `models`) are then both NaN, every comparison
\* of neighbours answers 0, and insertion sort and merge sort alike leave the
\* array as it is, as this insertion does.
RECURSIVE SortByRmse(_)
SortByRmse(models) ==
  IF models = <<>> THEN <<>>
  ELSE InsertSorted(SortByRmse(SubSeq(models, 1, Len(models) - 1)),
                    models[Len(models)])

Tolerance == Frac(MagOf(15), MagOf(100))

OnePlusTolerance == Frac(MagAdd(Tolerance.num, Tolerance.den), Tolerance.den)

\* 1e-9, the stand-in for a zero RMSE and the confidence noise floor
NoiseFloor == Frac(MagOf(1), MagOf(1000000000))

\* diff = (candidate.rmse - bestModel.rmse) / (bestModel.rmse || 1e-9);
\* diff < tolerance
WithinTolerance(candidate, bestModel) ==
  IF candidate.rmse.nan \/ bestModel.rmse.nan THEN FALSE
  ELSE IF RmseIsZero(bestModel.rmse)
  THEN RmseBelow(candidate.rmse, Ms(FracMul(Tolerance, NoiseFloor)))
  ELSE RmseLessTimes(candidate.rmse, OnePlusTolerance, bestModel.rmse)

\* Faulty variant: a simpler model replaces the current best whatever its RMSE.
SimplicityStepIgnoringTolerance(bestModel, candidate) ==
  IF candidate.complexity < bestModel.complexity THEN candidate ELSE bestModel

\* Faulty variant: the numerically best fit is kept, no simplicity bias.
SimplicityStepNeverReplacing(bestModel, candidate) == bestModel

\* Faulty variant: a model within the tolerance replaces the current best
\* whatever its rank.
SimplicityStepIgnoringRank(bestModel, candidate) ==
  IF WithinTolerance(candidate, bestModel) THEN candidate ELSE bestModel

\* One candidate of the simplicity scan: a simpler model within the tolerance
\* of the current best replaces it.
SimplicityStep(bestModel, candidate) ==
  IF candidate.complexity < bestModel.complexity
     /\ WithinTolerance(candidate, bestModel)
  THEN candidate
  ELSE bestModel

FindType(models, type) ==
  models[CHOOSE i \in DOMAIN models : models[i].type = type]

\* meanTime > 0 ? meanTime : 1, in ticks
SignalMagnitude(meanTime) ==
  IF meanTime.num # <<>> THEN meanTime ELSE Ms(FracOfInt(1))

\* normalizedError < 0.1, for normalizedError = rmse / signalMagnitude
BelowTenth(rmse, signalMagnitude) ==
  RmseBelow(rmse, Frac(signalMagnitude.num, MagMul(signalMagnitude.den, MagOf(10))))

\* Faulty variant: Logarithmic is never made to prove itself against Constant.
LogOverConstantNeverReplacing(bestModel, o1_model, signalMagnitude) == bestModel

\* lines 166-180: when the current best is Logarithmic, Constant's RMSE is
\* below 3 times its RMSE and its normalized error is below 0.1, Constant
\* becomes the current best
LogOverConstant(bestModel, o1_model, signalMagnitude) ==
  IF /\ bestModel.type = Logarithmic
     /\ RmseLessTimes(o1_model.rmse, FracOfInt(3), bestModel.rmse)
     /\ BelowTenth(bestModel.rmse, signalMagnitude)
  THEN o1_model
  ELSE bestModel

\* The O(log n) against O(1) check made after each candidate.
LogCheck(bestModel, models, meanTime) ==
  LogOverConstant(bestModel, FindType(models, Constant), SignalMagnitude(meanTime))

\* for (let i = 1; i < models.length; i++) { ... }, from index i (1-based)
RECURSIVE ScanFrom(_, _, _, _)
ScanFrom(models, i, bestModel, meanTime) ==
  IF i > Len(models) THEN bestModel
  ELSE ScanFrom(models, i + 1,
                LogCheck(SimplicityStep(bestModel, models[i]), models, meanTime),
                meanTime)

\* maxTime < 0.001 && (timeVariance / meanTime) < 0.1, times in ticks
LowAndFlat(maxTime, timeVariance, meanTime) ==
  /\ maxTime * 1000 < TicksPerMs
  /\ meanTime.num # <<>>
  /\ MagLess(MagMul(MagMul(timeVariance.num, meanTime.den), MagOf(10)),
             MagMul(MagMul(timeVariance.den, meanTime.num), MagOf(TicksPerMs)))

IsNoiseFloor(timeValues) ==
  LowAndFlat(MaxOf(timeValues), Variance(timeValues), Mean(timeValues))

\* Faulty variant: the final check is left out.
NoiseFloorOverrideNeverApplying(bestModel, models, timeValues) == bestModel

\* lines 190-192: the final check replaces the scan's choice by Constant
NoiseFloorOverride(bestModel, models, timeValues) ==
  IF IsNoiseFloor(timeValues) THEN FindType(models, Constant) ELSE bestModel

\* Math.round(k - (a * sqrt(A) + b * sqrt(B))) for integers k, a, b >= 0 and
\* fractions A, B: Math.round(x) = floor(x + 0.5), so the result is k - m for
\* the least integer m >= 0 with a * sqrt(A) + b * sqrt(B) <= m + 1/2, which
\* squaring twice decides exactly: with
\*   p = Ad*Bd,  q = 4a^2 * An*Bd + 4b^2 * Bn*Ad,  r = 64 a^2 b^2 * An*Bn*Ad*Bd
\* it is  h = (2m+1)^2 * p - q >= 0  and  r <= h^2.
NonNegativeWithSquareAtLeast(h, r) == ~h.neg /\ MagLeq(r, MagMul(h.mag, h.mag))

RootSumAtMost(c, m) ==
  NonNegativeWithSquareAtLeast(
    IntSub(IntMk(FALSE, MagMul(MagOf((2 * m + 1) * (2 * m + 1)), c.p)),
           IntMk(FALSE, c.q)),
    c.r)

RECURSIVE RoundUpperFrom(_, _)
RoundUpperFrom(c, m) ==
  IF RootSumAtMost(c, m) THEN m ELSE RoundUpperFrom(c, 2 * m + 1)

\* the least m in lo+1 .. hi with RootSumAtMost(c, m), which holds at hi and
\* not at lo
RECURSIVE RoundLeast(_, _, _)
RoundLeast(c, lo, hi) ==
  IF hi - lo <= 1 THEN hi
  ELSE IF RootSumAtMost(c, (lo + hi) \div 2)
  THEN RoundLeast(c, lo, (lo + hi) \div 2)
  ELSE RoundLeast(c, (lo + hi) \div 2, hi)

RoundLeastUpTo(c, hi) ==
  IF hi = 0 THEN 0 ELSE RoundLeast(c, (hi - 1) \div 2, hi)

\* the least m >= 0 with RootSumAtMost(c, m)
RoundUp(c) == RoundLeastUpTo(c, RoundUpperFrom(c, 0))

RoundBlend(k, a, A, b, B) ==
  k - RoundUp([p |-> MagMul(A.den, B.den),
               q |-> MagAdd(MagMul(MagOf(4 * a * a), MagMul(A.num, B.den)),
                            MagMul(MagOf(4 * b * b), MagMul(B.num, A.den))),
               r |-> MagMul(MagOf(64 * a * a * b * b),
                            MagMul(MagMul(A.num, B.num), MagMul(A.den, B.den)))])

NaNConfidence == [nan |-> TRUE, value |-> 0]

\* Faulty variant: the comparison with the noise floor the wrong way round.
IsPerfectFitFlipped(bestModel) == ~RmseBelow(bestModel.rmse, Ms(NoiseFloor))

\* bestModel.rmse < noiseFloor
IsPerfectFit(bestModel) == RmseBelow(bestModel.rmse, Ms(NoiseFloor))

\* normalizedError squared, for normalizedError = rmse / signalMagnitude
NormalizedErrorSq(rmse, signalMagnitude) ==
  Frac(MagMul(rmse.num, MagMul(signalMagnitude.den, signalMagnitude.den)),
       MagMul(rmse.den, MagMul(signalMagnitude.num, signalMagnitude.num)))

\* (1 - separation) squared: secondBest.rmse || 1 is 1 for a zero RMSE, and
\* separation = -rmse (in ms); otherwise separation = 1 - rmse / secondBest.rmse
SeparationLossSq(rmse, second) ==
  IF RmseIsZero(second)
  THEN Frac(rmse.num, MagMul(rmse.den, MagOf(TicksPerMs * TicksPerMs)))
  ELSE Frac(MagMul(rmse.num, second.den), MagMul(rmse.den, second.num))

\* Math.round((fitQuality * 0.7 + separation * 0.3) * 100), where fitQuality
\* is 0 when 1 - 2 * normalizedError <= 0 (normalizedErrorSq >= 1/4)
RoundConfidence(fitIsZero, secondIsZero, normalizedErrorSq, separationLossSq) ==
  RoundBlend((IF fitIsZero THEN 0 ELSE 70) + (IF secondIsZero THEN 0 ELSE 30),
             IF fitIsZero THEN 0 ELSE 140, normalizedErrorSq,
             30, separationLossSq)

WeightedConfidence(rmse, second, normalizedErrorSq) ==
  IF rmse.nan \/ second.nan THEN NaNConfidence
  ELSE [nan |-> FALSE,
        value |-> RoundConfidence(
                    MagLeq(normalizedErrorSq.den,
                           MagMul(MagOf(4), normalizedErrorSq.num)),
                    RmseIsZero(second),
                    normalizedErrorSq,
                    SeparationLossSq(rmse, second))]

\* Faulty variant: the best-fitting model, even when it is the chosen one.
SecondBestIgnoringChoice(bestModel, sortedByFit) == sortedByFit[1]

\* the best-fitting model that is not the chosen one
SecondBest(bestModel, sortedByFit) ==
  IF sortedByFit[1].type = bestModel.type THEN sortedByFit[2] ELSE sortedByFit[1]

\* The confidence of the chosen model, rounded:
\*   rmse < 1e-9                       -> 100
\*   fitQuality = max(0, 1 - 2 * rmse / signalMagnitude)
\*   separation = min(1, (second.rmse - rmse) / (second.rmse || 1))
\*   Math.round((fitQuality * 0.7 + separation * 0.3) * 100)
Confidence(bestModel, models, meanTime) ==
  IF IsPerfectFit(bestModel) THEN [nan |-> FALSE, value |-> 100]
  ELSE WeightedConfidence(
         bestModel.rmse,
         SecondBest(bestModel, SortByRmse(models)).rmse,
         NormalizedErrorSq(bestModel.rmse, SignalMagnitude(meanTime)))

\* ss.mean throws for an empty array
MeanRequiresData ==
  [name |-> "Error", message |-> "mean requires at least one data point"]

NoError == [name |-> None, message |-> None]

NoResult == [bestFit |-> None, confidence |-> NaNConfidence, results |-> <<>>]

\* results: type and rmse of each model, sorted again
Results(models) ==
  SortByRmse([i \in DOMAIN models |->
                [type |-> models[i].type, rmse |-> models[i].rmse]])

\* the model chosen from the sorted models: the scan, then the final check
BestModel(models, timeValues) ==
  NoiseFloorOverride(ScanFrom(models, 2, models[1], Mean(timeValues)),
                     models, timeValues)

AnalysisResult(bestModel, models, meanTime) ==
  [bestFit |-> bestModel.type,
   confidence |-> Confidence(bestModel, models, meanTime),
   results |-> Results(models)]

Analysis(models, timeValues) ==
  AnalysisResult(BestModel(models, timeValues), models, Mean(timeValues))

\* The outcome of a call: state is "returned" (value is the result) or
\* "threw" (error is the exception).
DetermineComplexity(dataPoints) ==
  IF Len(dataPoints) = 0
  THEN [state |-> "threw", error |-> MeanRequiresData, value |-> NoResult]
  ELSE [state |-> "returned", error |-> NoError,
        value |-> Analysis(SortByRmse(Models(dataPoints)),
                           TimeValuesOf(dataPoints))]

\* ------------------------------------------------------------------------
\* generateInputArray(n) = Array.from({ length: n }, (_, i) => i): the
\* integers 0 .. n-1, and the empty array for n <= 0
\* ------------------------------------------------------------------------
\* Faulty variant: the elements count from 1.
GenerateInputArrayFromOne(n) == [k \in 1..n |-> k]

GenerateInputArray(n) == [k \in 1..n |-> k - 1]

\* ------------------------------------------------------------------------
\* runAnalysis(algorithm, inputSizes, iterations) as a state machine, two
\* steps per invocation of the algorithm: the call, and its return or throw.  The clock performance.now() is
\* `now`, in milliseconds.  A call may take no time that the clock shows;
\* the iterations a loop then makes with nothing changing but its counter
\* are taken in one step.  The counts of invocations are exact integers
\* (magnitudes), since a batch size can exceed 2^31.
\* ------------------------------------------------------------------------
VARIABLES
  algorithm,    \* the function under test: [kind, unit], see Cost
  inputSizes,   \* the requested sizes
  iterations,   \* timed repetitions per size
  pc,           \* position in runAnalysis; "done" returned, "threw" threw
  now,          \* performance.now()
  dataPoints,   \* the DataPoints pushed so far: [n, time]
  idx,          \* position of the for-of loop in inputSizes (1-based)
  array,        \* the array in use: [id, items], id the allocation it is
  allocations,  \* arrays generated so far
  i,            \* counter of the warm-up loop and of the repetition loop
  b,            \* counter of the batch loop (a magnitude)
  calStart, calEnd, calCount,
  batchSize,    \* invocations per timed batch (a magnitude)
  start,        \* the clock at the start of the batch
  times,        \* samples of the current size: [num, den], num / den ms
  invocations,  \* calls of the algorithm that ended so far (a magnitude)
  inFlight,     \* calls of the algorithm begun and not yet ended
  thrown,       \* the error the algorithm threw, NoError if none
  raised,       \* the error runAnalysis ended with, NoError if none
  returned,     \* the value runAnalysis returned, once pc = "done"
  points,       \* the DataPoints given to determineComplexity
  outcome,      \* the outcome of the latest determineComplexity(points)
  calls,        \* calls of determineComplexity(points) made so far
  \* the web front-end (App.js): the form's fields, and the state of App
  growthStrategy, useSuperRange, powersOf10Count, doublingStart,
  doublingCount, linearStart, linearEnd, linearStep,
  result, error, isLoading, isBigOVisible,
  requests,     \* fetches sent and not yet settled
  response      \* the response a fetch resolved with: [ok, data]

runVars ==
  <<algorithm, inputSizes, iterations, pc, now, dataPoints, idx, array,
    allocations, i, b, calStart, calEnd, calCount, batchSize, start, times,
    invocations, inFlight, thrown, raised, returned>>

fieldVars ==
  <<growthStrategy, useSuperRange, powersOf10Count, doublingStart,
    doublingCount, linearStart, linearEnd, linearStep>>

formVars ==
  <<fieldVars, result, error, isLoading, isBigOVisible, requests, response>>

vars == <<runVars, points, outcome, calls, formVars>>

\* JavaScript values of the page's state, as records: null, and a string
Null == [null |-> TRUE]

Text(s) == [text |-> s]

\* App as first rendered (App.js lines 17-31), nothing submitted
FormStart ==
  /\ growthStrategy = "powersOf10"
  /\ useSuperRange = FALSE
  /\ powersOf10Count = 4
  /\ doublingStart = 1
  /\ doublingCount = 10
  /\ linearStart = 100
  /\ linearEnd = 1000
  /\ linearStep = 100
  /\ result = Null
  /\ error = Null
  /\ isLoading = FALSE
  /\ isBigOVisible = FALSE
  /\ requests = 0
  /\ response = Null

\* The functions under test: a call on an array costs `unit` ms for kind
\* "constant" and unit * (length + 1) ms for kind "linear"; a call of kind
\* "instant" returns before the clock advances.
Algorithms ==
  [kind : {"constant", "linear"}, unit : {1, 2, 5}]
    \cup {[kind |-> "instant", unit |-> 0]}

Cost(alg, items) ==
  CASE alg.kind = "constant" -> alg.unit
    [] alg.kind = "linear" -> alg.unit * (Len(items) + 1)
    [] alg.kind = "instant" -> 0

\* The errors a function under test throws
AlgorithmErrors ==
  { [name |-> "TypeError", message |-> "algorithm failed"],
    [name |-> "RangeError", message |-> "algorithm failed"] }

RECURSIVE SeqsUpTo(_, _)
SeqsUpTo(S, len) ==
  IF len = 0 THEN {<<>>}
  ELSE LET shorter == SeqsUpTo(S, len - 1)
       IN shorter \cup {Append(q, x) : q \in {r \in shorter : Len(r) = len - 1},
                                       x \in S}

SizeLists == SeqsUpTo(-1..MaxSize, MaxSizes)

NoArray == [id |-> 0, items |-> <<>>]

Pending == [state |-> "pending", error |-> NoError, value |-> NoResult]

RunStart ==
  /\ pc = "start"
  /\ now = 0
  /\ dataPoints = <<>>
  /\ idx = 1
  /\ array = NoArray
  /\ allocations = 0
  /\ i = 0
  /\ b = MagOf(0)
  /\ calStart = 0
  /\ calEnd = 0
  /\ calCount = 0
  /\ batchSize = MagOf(1)
  /\ start = 0
  /\ times = <<>>
  /\ invocations = MagOf(0)
  /\ inFlight = 0
  /\ thrown = NoError
  /\ raised = NoError
  /\ returned = <<>>

Init ==
  /\ algorithm \in Algorithms
  /\ inputSizes \in SizeLists
  /\ iterations \in {1, DefaultIterations}
  /\ RunStart
  /\ points = <<>>
  /\ outcome = Pending
  /\ calls = 0
  /\ FormStart

\* let x = generateInputArray(n)
Generate(n) ==
  /\ allocations' = allocations + 1
  /\ array' = [id |-> allocations + 1, items |-> GenerateInputArray(n)]

\* Faulty variant: an exception is caught and the points measured so far
\* are returned.
PropagateReturningPartial(failure) ==
  /\ pc' = "done"
  /\ raised' = NoError
  /\ returned' = dataPoints

\* An exception leaves runAnalysis, which has no try/catch: the caller gets
\* the error itself and no value.
Propagate(failure) ==
  /\ pc' = "threw"
  /\ raised' = failure
  /\ returned' = returned

\* Faulty variant: the loop has no cap on the number of invocations.
CalibrationContinuesWithoutCap(elapsed, count) == elapsed < CalibrationMinMs

\* line 46: the condition of the calibration loop
CalibrationContinues(elapsed, count) ==
  elapsed < CalibrationMinMs /\ count < CalibrationCap

\* The loop the run is in makes another call: its condition holds.
LoopContinues ==
  \/ pc = "warmup" /\ i < WarmupIterations
  \/ pc = "calibrate" /\ CalibrationContinues(calEnd - calStart, calCount)
  \/ pc = "batch" /\ MagLess(b, batchSize)

\* Faulty variant: a call begins while an earlier one has not ended.
CallWithoutWaiting ==
  /\ LoopContinues
  /\ inFlight < 2
  /\ inFlight' = inFlight + 1
  /\ UNCHANGED <<formVars, points, outcome, calls, algorithm, inputSizes, iterations,
                 pc, now, dataPoints, idx, array, allocations, i, b, calStart,
                 calEnd, calCount, batchSize, start, times, invocations,
                 thrown, raised, returned>>

\* lines 30, 50, 71: algorithm(array) is called; runAnalysis goes on when
\* the call has returned or thrown
Call ==
  /\ LoopContinues
  /\ inFlight = 0
  /\ inFlight' = 1
  /\ UNCHANGED <<formVars, points, outcome, calls, algorithm, inputSizes, iterations,
                 pc, now, dataPoints, idx, array, allocations, i, b, calStart,
                 calEnd, calCount, batchSize, start, times, invocations,
                 thrown, raised, returned>>

\* algorithm(array) returns, `count` times in a row (more than once only
\* for calls that take no time)
Returns(count) ==
  /\ inFlight' = 0
  /\ invocations' = MagAdd(invocations, count)
  /\ now' = now + Cost(algorithm, array.items)
  /\ UNCHANGED <<thrown, raised, returned>>

\* algorithm(array) throws
Throws ==
  /\ inFlight' = 0
  /\ invocations' = MagAdd(invocations, MagOf(1))
  /\ \E failure \in AlgorithmErrors :
       /\ thrown' = failure
       /\ Propagate(failure)
  /\ UNCHANGED <<now, dataPoints, idx, array, allocations, i, b, calStart,
                 calEnd, calCount, batchSize, start, times>>

\* lines 22-28: dataPoints = []; the warm-up array of inputSizes[0]
Start ==
  /\ pc = "start"
  /\ dataPoints' = <<>>
  /\ IF Len(inputSizes) > 0
     THEN /\ Generate(inputSizes[1])
          /\ i' = 0
          /\ pc' = "warmup"
     ELSE /\ pc' = "for"
          /\ UNCHANGED <<array, allocations, i>>
  /\ UNCHANGED <<formVars, points, outcome, calls, inFlight, algorithm, inputSizes, iterations, now, idx, b, calStart,
                 calEnd, calCount, batchSize, start, times, invocations,
                 thrown, raised, returned>>

\* lines 29-31: for (let i = 0; i < 100; i++) algorithm(warmupArray): the
\* call returns or throws
WarmupInvoke ==
  /\ pc = "warmup"
  /\ inFlight = 1
  /\ \/ /\ Returns(MagOf(1))
        /\ i' = i + 1
        /\ pc' = IF i + 1 < WarmupIterations THEN "warmup" ELSE "for"
        /\ UNCHANGED <<dataPoints, idx, array, allocations, b, calStart,
                       calEnd, calCount, batchSize, start, times>>
     \/ Throws
  /\ UNCHANGED <<formVars, algorithm, inputSizes, iterations, points, outcome, calls>>

\* lines 34-42: the next n of inputSizes; calibration set up
ForNext ==
  /\ pc = "for"
  /\ idx <= Len(inputSizes)
  /\ batchSize' = MagOf(1)
  /\ Generate(inputSizes[idx])
  /\ calStart' = now
  /\ calEnd' = now
  /\ calCount' = 0
  /\ pc' = "calibrate"
  /\ UNCHANGED <<formVars, points, outcome, calls, inFlight, algorithm, inputSizes, iterations, now, dataPoints, idx, i,
                 b, start, times, invocations, thrown, raised, returned>>

\* The count after the next step of the loop.  While the clock stands still
\* the condition is the same for every count below the cap, so the calls up
\* to the count CalibrationCap are one step; otherwise the step is one call.
CalibrationStep(elapsed, count, cost) ==
  IF /\ cost = 0
     /\ count + 1 < CalibrationCap
     /\ CalibrationContinues(elapsed, count + 1)
     /\ CalibrationContinues(elapsed, CalibrationCap - 1)
  THEN CalibrationCap
  ELSE count + 1

\* lines 46-53: while ((calEnd - calStart) < 5 && calCount < 1000000): the
\* call returns or throws
CalibrationInvoke ==
  /\ pc = "calibrate"
  /\ inFlight = 1
  /\ \/ /\ calCount' = CalibrationStep(calEnd - calStart, calCount,
                                        Cost(algorithm, array.items))
        /\ Returns(MagOf(calCount' - calCount))
        /\ calEnd' = now'
        /\ UNCHANGED <<pc, dataPoints, idx, array, allocations, i, b,
                       calStart, batchSize, start, times>>
     \/ Throws
  /\ UNCHANGED <<formVars, algorithm, inputSizes, iterations, points, outcome, calls>>

\* Faulty variant: the quotient is rounded down.
FloorBatchSize(count, calDuration) ==
  IF calDuration = 0 THEN MagMul(MagOf(BatchTargetMs * count), MagOf(1000))
  ELSE MagOf((BatchTargetMs * count) \div calDuration)

\* Math.ceil((15 * calCount) / (calDuration || 0.001))
CeilBatchSize(count, calDuration) ==
  IF calDuration = 0 THEN MagMul(MagOf(BatchTargetMs * count), MagOf(1000))
  ELSE MagOf((BatchTargetMs * count + calDuration - 1) \div calDuration)

\* lines 55-63: the batch size; times = []
CalibrationDone ==
  /\ pc = "calibrate"
  /\ ~CalibrationContinues(calEnd - calStart, calCount)
  /\ batchSize' = IF calCount > 1
                  THEN CeilBatchSize(calCount, calEnd - calStart)
                  ELSE batchSize
  /\ times' = <<>>
  /\ i' = 0
  /\ pc' = "iterate"
  /\ UNCHANGED <<formVars, points, outcome, calls, inFlight, algorithm, inputSizes, iterations, now, dataPoints, idx,
                 array, allocations, b, calStart, calEnd, calCount, start,
                 invocations, thrown, raised, returned>>

\* Faulty variant: the repetition runs on the array already in use (the
\* calibration array, or the array of the repetition before).
BatchStartReusingArray ==
  /\ pc = "iterate"
  /\ i < iterations
  /\ start' = now
  /\ b' = MagOf(0)
  /\ pc' = "batch"
  /\ UNCHANGED <<formVars, points, outcome, calls, inFlight, algorithm, inputSizes, iterations, now, dataPoints, idx, i,
                 calStart, calEnd, calCount, batchSize, times, invocations,
                 thrown, raised, returned, array, allocations>>

\* lines 64-70: a fresh array for the repetition; start = performance.now()
BatchStart ==
  /\ pc = "iterate"
  /\ i < iterations
  /\ Generate(inputSizes[idx])
  /\ start' = now
  /\ b' = MagOf(0)
  /\ pc' = "batch"
  /\ UNCHANGED <<formVars, points, outcome, calls, inFlight, algorithm, inputSizes, iterations, now, dataPoints, idx, i,
                 calStart, calEnd, calCount, batchSize, times, invocations,
                 thrown, raised, returned>>

\* The counter after the next step of the batch loop: calls that take no
\* time are one step up to the end of the batch.
BatchStep(count, size, cost) ==
  IF cost = 0 THEN size ELSE MagAdd(count, MagOf(1))

\* lines 70-72: for (let b = 0; b < batchSize; b++) algorithm(array): the
\* call returns or throws
BatchInvoke ==
  /\ pc = "batch"
  /\ inFlight = 1
  /\ \/ /\ b' = BatchStep(b, batchSize, Cost(algorithm, array.items))
        /\ Returns(MagSub(b', b))
        /\ UNCHANGED <<pc, dataPoints, idx, array, allocations, i, calStart,
                       calEnd, calCount, batchSize, start, times>>
     \/ Throws
  /\ UNCHANGED <<formVars, algorithm, inputSizes, iterations, points, outcome, calls>>

\* lines 73-76: times.push((end - start) / batchSize)
BatchEnd ==
  /\ pc = "batch"
  /\ ~MagLess(b, batchSize)
  /\ times' = Append(times, [num |-> now - start, den |-> batchSize])
  /\ i' = i + 1
  /\ pc' = "iterate"
  /\ UNCHANGED <<formVars, points, outcome, calls, inFlight, algorithm, inputSizes, iterations, now, dataPoints, idx,
                 array, allocations, b, calStart, calEnd, calCount, batchSize,
                 start, invocations, thrown, raised, returned>>

RECURSIVE SumNum(_)
SumNum(samples) ==
  IF samples = <<>> THEN 0 ELSE samples[1].num + SumNum(Tail(samples))

\* ss.mean(times) of samples that share their denominator
MeanOfSamples(samples) ==
  [num |-> SumNum(samples),
   den |-> MagMul(samples[1].den, MagOf(Len(samples)))]

\* Faulty variant: a size that is not positive gets no DataPoint.
PushDataPointSkippingEmpty ==
  /\ pc = "iterate"
  /\ i >= iterations
  /\ dataPoints' = IF inputSizes[idx] > 0
                   THEN Append(dataPoints,
                               [n |-> inputSizes[idx], time |-> MeanOfSamples(times)])
                   ELSE dataPoints
  /\ idx' = idx + 1
  /\ pc' = "for"
  /\ UNCHANGED <<formVars, points, outcome, calls, inFlight, algorithm, inputSizes, iterations, now, array, allocations,
                 i, b, calStart, calEnd, calCount, batchSize, start, times,
                 invocations, thrown, raised, returned>>

\* lines 79-82: dataPoints.push({ n, time: ss.mean(times) }); ss.mean throws
\* for no samples
PushDataPoint ==
  /\ pc = "iterate"
  /\ i >= iterations
  /\ IF times = <<>>
     THEN /\ Propagate(MeanRequiresData)
          /\ UNCHANGED <<dataPoints, idx>>
     ELSE /\ dataPoints' = Append(dataPoints,
                                  [n |-> inputSizes[idx],
                                   time |-> MeanOfSamples(times)])
          /\ idx' = idx + 1
          /\ pc' = "for"
          /\ UNCHANGED <<raised, returned>>
  /\ UNCHANGED <<formVars, points, outcome, calls, inFlight, algorithm, inputSizes, iterations, now, array, allocations,
                 i, b, calStart, calEnd, calCount, batchSize, start, times,
                 invocations, thrown>>

\* line 85: return dataPoints
Return ==
  /\ pc = "for"
  /\ idx > Len(inputSizes)
  /\ returned' = dataPoints
  /\ pc' = "done"
  /\ UNCHANGED <<formVars, points, outcome, calls, inFlight, algorithm, inputSizes, iterations, now, dataPoints, idx,
                 array, allocations, i, b, calStart, calEnd, calCount,
                 batchSize, start, times, invocations, thrown, raised>>

Next ==
  \/ Start
  \/ Call
  \/ WarmupInvoke
  \/ ForNext
  \/ CalibrationInvoke
  \/ CalibrationDone
  \/ BatchStart
  \/ BatchInvoke
  \/ BatchEnd
  \/ PushDataPoint
  \/ Return

Spec == Init /\ [][Next]_vars

\* runAnalysis runs on: a call of the algorithm that has begun returns or
\* throws, and the statements between calls are executed.
SpecTerminating == Spec /\ WF_vars(Next)

\* ------------------------------------------------------------------------
\* determineComplexity applied to bounded inputs
\* ------------------------------------------------------------------------
RECURSIVE Pow(_, _)
Pow(base, k) == IF k = 0 THEN 1 ELSE base * Pow(base, k - 1)

\* below and above the 0.001 ms threshold of the final check: a duration
\* pattern value is 1 or 8 ticks
Scales == {1, 8}

\* sizes 1, 2, 4, ... with every pattern of durations
DoublingSeries ==
  UNION { { [k \in 1..len |-> [n |-> Pow(2, k - 1), time |-> scale * t[k]]] :
              t \in [1..len -> 0..MaxTime], scale \in Scales } :
          len \in 0..MaxPoints }

\* the same size measured twice
RepeatedSize ==
  { << [n |-> 2, time |-> 8 * t1], [n |-> 2, time |-> 8 * t2] >> :
      t1 \in 0..MaxTime, t2 \in 0..MaxTime }

\* [(10, 1.0), (100, 1.0), (1000, 1.0), (10000, 1.0)]
FlatExample == [k \in 1..4 |-> [n |-> Pow(10, k), time |-> TicksPerMs]]

\* duration = 0.001 * n over n in {10, 100, 1000, 10000}
LinearExample ==
  [k \in 1..4 |-> [n |-> Pow(10, k), time |-> (Pow(10, k) * TicksPerMs) \div 1000]]

\* duration = 1e-6 * n^2 over n in {100, 200, 400, 800, 1600}
QuadraticExample ==
  [k \in 1..5 |->
     LET size == 100 * Pow(2, k - 1)
     IN [n |-> size, time |-> (size * size) \div (1000000 \div TicksPerMs)]]

\* size 0 first, then 1, 2, ..., as linear steps from 0 give
ZeroSizeSeries ==
  UNION { { [k \in 1..len |-> [n |-> IF k = 1 THEN 0 ELSE Pow(2, k - 2),
                               time |-> 8 * t[k]]] :
              t \in [1..len -> 0..MaxTime] } :
          len \in 2..(MaxPoints - 1) }

\* a flat signal of 0.002 ms with small noise, over sizes 1, 2, 4
NearlyFlatSeries ==
  { [k \in 1..3 |-> [n |-> Pow(2, k - 1), time |-> 8 + t[k]]] :
      t \in [1..3 -> 0..MaxTime] }

DataSets ==
  DoublingSeries \cup RepeatedSize \cup ZeroSizeSeries \cup NearlyFlatSeries
    \cup {FlatExample, LinearExample, QuadraticExample}

InitClassify ==
  /\ algorithm = [kind |-> "constant", unit |-> 1]
  /\ inputSizes = <<>>
  /\ iterations = DefaultIterations
  /\ RunStart
  /\ points \in DataSets
  /\ outcome = Pending
  /\ calls = 0
  /\ FormStart

\* Faulty variant: the call sorts its argument in place, latest size first.
ArgumentReversed(given) ==
  [k \in DOMAIN given |-> given[Len(given) + 1 - k]]

\* The argument after a call: determineComplexity only reads dataPoints, with
\* map (lines 105, 106, 115, 118), which builds new arrays; the arrays it
\* sorts in place (lines 142, 243) are its own.
ArgumentAfterCall(given) == given

\* line 372: the first determineComplexity(points)
Classify ==
  /\ outcome.state = "pending"
  /\ outcome' = DetermineComplexity(points)
  /\ points' = ArgumentAfterCall(points)
  /\ calls' = 1
  /\ UNCHANGED <<runVars, formVars>>

\* a second call on the same sequence; the function keeps nothing between
\* calls (every binding of lines 105-243 is local to the call)
ClassifyAgain ==
  /\ calls = 1
  /\ outcome' = DetermineComplexity(points)
  /\ points' = ArgumentAfterCall(points)
  /\ calls' = 2
  /\ UNCHANGED <<runVars, formVars>>

NextClassify ==
  \/ Classify
  \/ ClassifyAgain

SpecClassify == InitClassify /\ [][NextClassify]_vars

\* ------------------------------------------------------------------------
\* The web front-end: App and its handleSubmit (web-frontend/src/App.js).
\* An event handler runs to its first await and React renders the state it
\* set before the next event is handled, so the synchronous part of
\* handleSubmit is one step, except for the loop of the 'linear' strategy,
\* which is a step per pass.  `pc` is the position of handleSubmit ("idle"
\* when none is running), `inputSizes` and `i` are its locals.
\* ------------------------------------------------------------------------
MaxField == 2       \* largest value typed into a number field of the form

\* The length at which inputSizes.push fails: the engine's limit on the
\* length of an array, or the memory of the page before it, scaled to the
\* values of the fields; longer than every list a terminating loop builds.
MaxArrayLength == MaxField + 3

FieldValues == -1..MaxField

analysisVars ==
  <<algorithm, iterations, now, dataPoints, idx, array, allocations, b,
    calStart, calEnd, calCount, batchSize, start, times, invocations,
    inFlight, thrown, raised, returned, points, outcome, calls>>

\* no analysis is running in the page
NoAnalysis ==
  /\ algorithm = [kind |-> "constant", unit |-> 1]
  /\ iterations = DefaultIterations
  /\ now = 0
  /\ dataPoints = <<>>
  /\ idx = 1
  /\ array = NoArray
  /\ allocations = 0
  /\ b = MagOf(0)
  /\ calStart = 0
  /\ calEnd = 0
  /\ calCount = 0
  /\ batchSize = MagOf(1)
  /\ start = 0
  /\ times = <<>>
  /\ invocations = MagOf(0)
  /\ inFlight = 0
  /\ thrown = NoError
  /\ raised = NoError
  /\ returned = <<>>
  /\ points = <<>>
  /\ outcome = Pending
  /\ calls = 0

\* The form as the user filled it in: the fields of the chosen strategy hold
\* any integers, the others their first values (lines 20-27).
InitForm ==
  /\ useSuperRange \in BOOLEAN
  /\ growthStrategy \in {"powersOf10", "doubling", "linear"}
  /\ powersOf10Count \in
       IF ~useSuperRange /\ growthStrategy = "powersOf10" THEN FieldValues ELSE {4}
  /\ doublingStart \in
       IF ~useSuperRange /\ growthStrategy = "doubling" THEN FieldValues ELSE {1}
  /\ doublingCount \in
       IF ~useSuperRange /\ growthStrategy = "doubling" THEN FieldValues ELSE {10}
  /\ linearStart \in
       IF ~useSuperRange /\ growthStrategy = "linear" THEN FieldValues ELSE {100}
  /\ linearEnd \in
       IF ~useSuperRange /\ growthStrategy = "linear" THEN FieldValues ELSE {1000}
  /\ linearStep \in
       IF ~useSuperRange /\ growthStrategy = "linear" THEN FieldValues ELSE {100}
  /\ result = Null
  /\ error = Null
  /\ isLoading = FALSE
  /\ isBigOVisible = FALSE
  /\ requests = 0
  /\ response = Null
  /\ pc = "idle"
  /\ inputSizes = <<>>
  /\ i = 0
  /\ NoAnalysis

\* Array.from({ length: count }, ...): a negative length counts as 0
ArrayLength(count) == IF count < 0 THEN 0 ELSE count

\* lines 40-58: the lists built without a loop
ArrayFromSizes ==
  IF useSuperRange THEN [k \in 1..100 |-> k * 10]
  ELSE CASE growthStrategy = "powersOf10" ->
              [k \in 1..ArrayLength(powersOf10Count) |-> Pow(10, k)]
         [] growthStrategy = "doubling" ->
              [k \in 1..ArrayLength(doublingCount) |-> doublingStart * Pow(2, k - 1)]
         [] OTHER -> <<10, 100, 1000, 10000>>

\* Faulty variant: the outcome of the previous request is kept.
KeepOutcome == UNCHANGED <<result, error>>

\* lines 36-37: setError(null); setResult(null)
ClearOutcome ==
  /\ error' = Null
  /\ result' = Null

\* The form is submitted, which the button allows while it is not disabled
\* (line 237, disabled={isLoading}): lines 34-50, up to the first pass of
\* the loop for the 'linear' strategy, up to the fetch otherwise.
HandleSubmit ==
  /\ ~isLoading
  /\ isLoading' = TRUE
  /\ ClearOutcome
  /\ IF ~useSuperRange /\ growthStrategy = "linear"
     THEN /\ inputSizes' = <<>>
          /\ i' = linearStart
          /\ pc' = "build"
     ELSE /\ inputSizes' = ArrayFromSizes
          /\ i' = i
          /\ pc' = "send"
  /\ UNCHANGED <<analysisVars, fieldVars, isBigOVisible, requests, response>>

\* lines 52-54: for (let i = linearStart; i <= linearEnd; i += linearStep)
\* inputSizes.push(i); a push that fails ends handleSubmit, which is outside
\* the try block there, with isLoading left as it is
LinearPush ==
  /\ pc = "build"
  /\ i <= linearEnd
  /\ IF Len(inputSizes) < MaxArrayLength
     THEN /\ inputSizes' = Append(inputSizes, i)
          /\ i' = i + linearStep
          /\ pc' = pc
     ELSE /\ pc' = "exhausted"
          /\ UNCHANGED <<inputSizes, i>>
  /\ UNCHANGED <<analysisVars, formVars>>

\* the loop's condition fails
LinearDone ==
  /\ pc = "build"
  /\ ~(i <= linearEnd)
  /\ pc' = "send"
  /\ UNCHANGED <<analysisVars, formVars, inputSizes, i>>

\* lines 61-69: the request is sent
Fetch ==
  /\ pc = "send"
  /\ requests' = requests + 1
  /\ pc' = "fetching"
  /\ UNCHANGED <<analysisVars, fieldVars, inputSizes, i, result, error,
                 isLoading, isBigOVisible, response>>

\* What the server's /api/analyze answers: 200 with the analysis, or 400 or
\* 500 with an error message.
InvalidInput == [ok |-> FALSE, data |-> [error |-> Text("Invalid input")]]

ServerResponses ==
  { [ok |-> TRUE, data |-> [bigO |-> Linear, confidence |-> c]] : c \in {50, 90} }
    \cup { InvalidInput }
    \cup { [ok |-> FALSE, data |-> [error |-> Text(m)]] :
             m \in { "Analysis produced no data points. Input sizes might be too small.",
                     "Error generating graph",
                     "algorithm is not a function" } }

\* the server rejects an empty list of sizes
ResponsesTo(sizes) ==
  IF sizes = <<>> THEN {InvalidInput} ELSE ServerResponses

\* lines 85-87: finally { setIsLoading(false) }, and handleSubmit ends
Finally ==
  /\ isLoading' = FALSE
  /\ requests' = requests - 1
  /\ response' = Null
  /\ pc' = "idle"

\* lines 83-85: catch (err) { setError('Failed to connect to the server.') }
Catch ==
  /\ error' = Text("Failed to connect to the server.")
  /\ UNCHANGED <<result, isBigOVisible>>

\* await fetch(...) yields a response
FetchResolves ==
  /\ pc = "fetching"
  /\ \E r \in ResponsesTo(inputSizes) : response' = r
  /\ pc' = "parsing"
  /\ UNCHANGED <<analysisVars, fieldVars, inputSizes, i, result, error,
                 isLoading, isBigOVisible, requests>>

\* await fetch(...) fails: the server cannot be reached
FetchRejects ==
  /\ pc = "fetching"
  /\ Catch
  /\ Finally
  /\ UNCHANGED <<analysisVars, fieldVars, inputSizes, i>>

\* lines 71-82: await response.json() yields data
JsonResolves ==
  /\ pc = "parsing"
  /\ IF response.ok
     THEN /\ result' = response.data
          /\ isBigOVisible' = (response.data.confidence >= 75)
          /\ error' = error
     ELSE /\ error' = response.data.error
          /\ UNCHANGED <<result, isBigOVisible>>
  /\ Finally
  /\ UNCHANGED <<analysisVars, fieldVars, inputSizes, i>>

\* await response.json() fails: the body is not JSON
JsonRejects ==
  /\ pc = "parsing"
  /\ Catch
  /\ Finally
  /\ UNCHANGED <<analysisVars, fieldVars, inputSizes, i>>

\* line 250: a click on the low-confidence line shows the result
Reveal ==
  /\ result # Null
  /\ ~isBigOVisible
  /\ isBigOVisible' = TRUE
  /\ UNCHANGED <<analysisVars, fieldVars, inputSizes, i, pc, result, error,
                 isLoading, requests, response>>

\* the steps handleSubmit takes by itself, once it was started or resumed
HandlerStep ==
  \/ LinearPush
  \/ LinearDone
  \/ Fetch
  \/ JsonResolves
  \/ JsonRejects

NextForm ==
  \/ HandleSubmit
  \/ LinearPush
  \/ LinearDone
  \/ Fetch
  \/ FetchResolves
  \/ FetchRejects
  \/ JsonResolves
  \/ JsonRejects
  \/ Reveal

\* The event loop runs a handler that can go on; a user need not submit and
\* a request need not be answered.
SpecForm == InitForm /\ [][NextForm]_vars /\ WF_vars(HandlerStep)

\* ------------------------------------------------------------------------
\* Properties of runAnalysis (under Spec)
\* ------------------------------------------------------------------------

\* C1: when the algorithm never throws, runAnalysis returns exactly one
\* DataPoint per requested size, the k-th with n equal to the k-th requested
\* size (the empty list included): the points pushed so far are always those
\* of the first sizes in order, the returned sequence has the length of
\* inputSizes, and a run ends with an error only if the algorithm threw.
C1_OnePointPerSizeInOrder ==
  /\ Len(dataPoints) <= Len(inputSizes)
  /\ \A k \in DOMAIN dataPoints : dataPoints[k].n = inputSizes[k]
  /\ pc = "done" =>
       /\ Len(returned) = Len(inputSizes)
       /\ \A k \in DOMAIN returned : returned[k].n = inputSizes[k]
  /\ pc = "threw" => thrown # NoError

\* a run that returned the points of two different sizes given in descending
\* order
C1_Witness ==
  /\ pc = "done"
  /\ Len(inputSizes) = 2
  /\ inputSizes[1] > inputSizes[2]
  /\ Len(returned) = 2
  /\ returned[1].n = inputSizes[1]
  /\ returned[2].n = inputSizes[2]

\* C2: if the algorithm throws on any invocation (warm-up, calibration or a
\* timed batch, for any size), runAnalysis ends with an error and returns
\* nothing, not even the points already measured, and the algorithm is not
\* invoked again.
C2_ThrowAbortsRun ==
  /\ [](thrown # NoError =>
          /\ pc = "threw"
          /\ raised # NoError
          /\ returned = <<>>)
  /\ [][thrown # NoError => invocations' = invocations]_vars

\* the algorithm threw after the point of an earlier size had been measured,
\* and nothing was returned
C2_Witness ==
  /\ thrown # NoError
  /\ pc = "threw"
  /\ Len(dataPoints) >= 1
  /\ returned = <<>>

\* C3: the error runAnalysis surfaces when the algorithm throws is an
\* AlgorithmExecutionError that wraps the original failure, not the
\* algorithm's own error object.
C3_SurfacesWrappedError ==
  (pc = "threw" /\ thrown # NoError) =>
    /\ raised.name = "AlgorithmExecutionError"
    /\ raised # thrown

\* the algorithm threw after the warm-up and its own error reached the caller
C3_Witness ==
  /\ pc = "threw"
  /\ thrown # NoError
  /\ MagLess(MagOf(WarmupIterations), invocations)
  /\ raised = thrown

\* C5: a negative requested size is rejected: generateInputArray returns no
\* array for it, no DataPoint is emitted for it, and runAnalysis does not
\* return when an entry of inputSizes is negative.
C5_NegativeSizeRejected ==
  /\ pc = "warmup" => inputSizes[1] >= 0
  /\ pc \in {"calibrate", "iterate", "batch"} => inputSizes[idx] >= 0
  /\ \A k \in DOMAIN dataPoints : dataPoints[k].n >= 0
  /\ pc = "done" => \A k \in DOMAIN inputSizes : inputSizes[k] >= 0

\* runAnalysis returned a DataPoint whose n is negative
C5_Witness ==
  /\ pc = "done"
  /\ \E k \in DOMAIN returned : returned[k].n < 0

\* ------------------------------------------------------------------------
\* Properties of determineComplexity (under SpecClassify)
\* ------------------------------------------------------------------------
Returned == outcome.state = "returned"

ComplexityOf(type) ==
  CASE type = Constant -> 1
    [] type = Logarithmic -> 2
    [] type = Linear -> 3
    [] type = Linearithmic -> 4
    [] type = Quadratic -> 5

\* the fits of the result, in ascending RMSE, with their complexity ranks
Fits ==
  [k \in DOMAIN outcome.value.results |->
     [type |-> outcome.value.results[k].type,
      rmse |-> outcome.value.results[k].rmse,
      complexity |-> ComplexityOf(outcome.value.results[k].type)]]

\* The simplicity scan alone (lines 148-161), from candidate k on
RECURSIVE SimplicityScan(_, _, _)
SimplicityScan(models, k, bestModel) ==
  IF k > Len(models) THEN bestModel
  ELSE SimplicityScan(models, k + 1, SimplicityStep(bestModel, models[k]))

SimplicityChoice == SimplicityScan(Fits, 2, Fits[1])

TimeValues == [k \in DOMAIN points |-> points[k].time]

\* C4: determineComplexity called with fewer than 2 DataPoints fails with an
\* InsufficientDataError and returns no result.
C4_FewPointsRejected ==
  (outcome.state # "pending" /\ Len(points) < 2) =>
    /\ outcome.state = "threw"
    /\ outcome.error.name = "InsufficientDataError"

\* a single DataPoint was classified and a result came back
C4_Witness ==
  /\ Len(points) = 1
  /\ Returned
  /\ outcome.value.bestFit = Constant

\* C6: for a sequence of two or more DataPoints (sizes >= 1, durations >= 0)
\* the confidence returned is an integer in 0..100.
C6_ConfidenceInRange ==
  (Returned /\ Len(points) >= 2) =>
    /\ ~outcome.value.confidence.nan
    /\ outcome.value.confidence.value \in 0..100

\* the simplicity bias chose a model that is not the lowest-RMSE one, no
\* noise-floor override applied, and the confidence is negative
C6_Witness ==
  /\ Returned
  /\ Len(points) >= 2
  /\ ~IsNoiseFloor(TimeValues)
  /\ outcome.value.bestFit # Fits[1].type
  /\ ~outcome.value.confidence.nan
  /\ outcome.value.confidence.value < 0

\* 1.15^4: four replacements, each within the tolerance of the model replaced
ChainFactor == Frac(MagOf(115 * 115 * 115 * 115), MagOf(100 * 100 * 100 * 100))

\* 1.15^3 * 0.15 * 1e-9 ms: a first replacement of a zero RMSE, then three more
ChainFloor ==
  Ms(Frac(MagMul(MagOf(115 * 115 * 115), Tolerance.num),
          MagMul(MagMul(MagOf(100 * 100 * 100), Tolerance.den), NoiseFloor.den)))

OccamCase ==
  LET quadratic == FindType(Fits, Quadratic)
      linear == FindType(Fits, Linear)
  IN /\ Returned
     /\ Fits[1].type = Quadratic
     /\ RmseLess(quadratic.rmse, linear.rmse)
     /\ WithinTolerance(linear, quadratic)
     /\ ~WithinTolerance(FindType(Fits, Logarithmic), linear)
     /\ ~WithinTolerance(FindType(Fits, Constant), linear)

IsFlat == \A k \in DOMAIN points : points[k].time = points[1].time

C10_ExactDataIsRecognised ==
  /\ (Returned /\ points = LinearExample) =>
       /\ outcome.value.bestFit = Linear
       /\ ~outcome.value.confidence.nan
       /\ outcome.value.confidence.value >= 90
  /\ (Returned /\ points = QuadraticExample) =>
       outcome.value.bestFit = Quadratic

\* the exactly quadratic series was classified, its Quadratic fit with RMSE 0
C10_Witness ==
  /\ Returned
  /\ points = QuadraticExample
  /\ RmseIsZero(FindType(Fits, Quadratic).rmse)
  /\ ~RmseIsZero(FindType(Fits, Linearithmic).rmse)

\* a.rmse <= b.rmse (false when either is NaN)
RmseLeq(x, y) ==
  /\ ~x.nan
  /\ ~y.nan
  /\ MagLeq(MagMul(x.num, y.den), MagMul(y.num, x.den))

GrowthModels == {Constant, Logarithmic, Linear, Linearithmic, Quadratic}

ResultTypes ==
  {outcome.value.results[k].type : k \in DOMAIN outcome.value.results}

\* C11: the results returned by determineComplexity have exactly five
\* entries, one per growth model, each entry's rmse is <= the next entry's
\* rmse, and bestFit is the type of one of the entries.
C11_FiveFitsAscending ==
  Returned =>
    /\ Len(outcome.value.results) = 5
    /\ ResultTypes = GrowthModels
    /\ \A k \in 1..(Len(outcome.value.results) - 1) :
         RmseLeq(outcome.value.results[k].rmse, outcome.value.results[k + 1].rmse)
    /\ outcome.value.bestFit \in ResultTypes

\* one size measured twice with different durations was classified: five
\* entries came back, the first with a positive RMSE, the second with NaN
C11_Witness ==
  /\ Returned
  /\ points \in RepeatedSize
  /\ Len(outcome.value.results) = 5
  /\ ~outcome.value.results[1].rmse.nan
  /\ ~RmseIsZero(outcome.value.results[1].rmse)
  /\ outcome.value.results[2].rmse.nan

HasZeroSize == \E k \in DOMAIN points : points[k].n = 0

\* C12: classifying a sequence that has a DataPoint with n = 0 does not
\* raise, and, that point being left out of the Logarithmic and Linearithmic
\* regressions, no returned RMSE and no confidence is NaN or infinite.
C12_ZeroSizeExcluded ==
  (outcome.state # "pending" /\ HasZeroSize) =>
    /\ Returned
    /\ \A k \in DOMAIN outcome.value.results : ~outcome.value.results[k].rmse.nan
    /\ ~outcome.value.confidence.nan

\* sizes 0, 1, 2 with durations growing exactly linearly were classified:
\* the call returned, the Logarithmic and Linearithmic RMSEs are NaN, the
\* Linear RMSE is 0, bestFit is Constant and the confidence is NaN
C12_Witness ==
  /\ Returned
  /\ Len(points) = 3
  /\ \A k \in DOMAIN points : points[k].n = k - 1 /\ points[k].time = 8 * (k - 1)
  /\ FindType(Fits, Logarithmic).rmse.nan
  /\ FindType(Fits, Linearithmic).rmse.nan
  /\ RmseIsZero(FindType(Fits, Linear).rmse)
  /\ outcome.value.bestFit = Constant
  /\ outcome.value.confidence.nan

SizeRequested == IF pc = "start" THEN inputSizes[1] ELSE inputSizes[idx]

C15_PointsAscending ==
  /\ \A k \in 1..(Len(dataPoints) - 1) : dataPoints[k].n <= dataPoints[k + 1].n
  /\ \A k \in 1..(Len(returned) - 1) : returned[k].n <= returned[k + 1].n

\* the sizes 1, 0 (linear steps from 1 with step -1) were measured and the
\* points came back in that order
C15_Witness ==
  /\ pc = "done"
  /\ inputSizes = <<1, 0>>
  /\ Len(returned) = 2
  /\ returned[1].n = 1
  /\ returned[2].n = 0

RECURSIVE MinOf(_)
MinOf(xs) ==
  IF Len(xs) = 1 THEN xs[1]
  ELSE LET rest == MinOf(Tail(xs)) IN IF xs[1] <= rest THEN xs[1] ELSE rest

\* C16: for a non-empty list of sizes the warm-up invokes the algorithm on
\* a workload of the smallest requested size (the minimum of the list, in
\* whatever order the list is), at least 50 times before any calibration or
\* timed invocation; for an empty list the algorithm is never invoked.
C16_WarmupOnSmallestSize ==
  /\ pc = "warmup" =>
       /\ array.items = GenerateInputArray(MinOf(inputSizes))
       /\ invocations = MagOf(i)
  /\ (pc \in {"calibrate", "iterate", "batch"}) =>
       MagLeq(MagOf(50), invocations)
  /\ Len(inputSizes) = 0 => invocations = MagOf(0)

\* the sizes 1, 0: the last warm-up invocation is about to be made on the
\* one-element workload of the first size, the smallest size being 0
C16_Witness ==
  /\ pc = "warmup"
  /\ inputSizes = <<1, 0>>
  /\ i = WarmupIterations - 1
  /\ invocations = MagOf(WarmupIterations - 1)
  /\ array.items = <<0>>

\* ------------------------------------------------------------------------
\* Termination of runAnalysis (under SpecTerminating)
\* ------------------------------------------------------------------------

\* C17: the calibration loop of each size ends: it makes an invocation only
\* while fewer than 5 ms have elapsed and fewer than 1,000,000 invocations
\* were made, so never more than 1,000,000, also on a clock that stands
\* still; reaching the cap is no error (the run fails only if the algorithm
\* threw), and runAnalysis ends whenever every invocation ends, with the
\* DataPoint of every size if the algorithm did not throw.
C17_CalibrationTerminates ==
  /\ [](calCount <= 1000000)
  /\ [][calCount' # calCount /\ calCount' # 0 =>
          /\ (calEnd - calStart) < 5
          /\ calCount < 1000000]_vars
  /\ [](pc = "threw" => thrown # NoError)
  /\ [](pc = "done" => Len(returned) = Len(inputSizes))
  /\ <>(pc \in {"done", "threw"})

\* on a clock that stood still the calibration of a size made 1,000,000
\* invocations, and the run returned that size's DataPoint, of duration 0
C17_Witness ==
  /\ pc = "done"
  /\ algorithm.kind = "instant"
  /\ calCount = CalibrationCap
  /\ calEnd = calStart
  /\ Len(returned) >= 1
  /\ returned[Len(returned)].time.num = 0

\* ------------------------------------------------------------------------
\* The timed batches (under Spec)
\* ------------------------------------------------------------------------

\* C18: the batch size of each size is an integer >= 1: 1 when the
\* calibration made one invocation, otherwise the least integer m with
\* m * calDuration >= 15 * calCount, calDuration = 0 counting as 0.001; so
\* a timed batch has made an invocation when it ends, and every sample
\* (end - start) / batchSize has a non-zero divisor and is not negative, as
\* is every DataPoint's duration.
C18_BatchSizeAtLeastOne ==
  /\ pc \in {"iterate", "batch"} =>
       /\ MagLeq(MagOf(1), batchSize)
       /\ calCount = 1 => batchSize = MagOf(1)
       /\ (calCount > 1 /\ calEnd = calStart) =>
            batchSize = MagMul(MagOf(15 * calCount), MagOf(1000))
       /\ (calCount > 1 /\ calEnd # calStart) =>
            /\ MagLeq(MagOf(15 * calCount),
                      MagMul(batchSize, MagOf(calEnd - calStart)))
            /\ MagLess(MagMul(MagSub(batchSize, MagOf(1)), MagOf(calEnd - calStart)),
                       MagOf(15 * calCount))
       /\ \A k \in DOMAIN times :
            /\ times[k].den = batchSize
            /\ times[k].num >= 0
  /\ (pc = "batch" /\ ~MagLess(b, batchSize)) => b # MagOf(0)
  /\ \A k \in DOMAIN dataPoints :
       /\ dataPoints[k].time.den # MagOf(0)
       /\ dataPoints[k].time.num >= 0

\* a calibration of two invocations in 8 ms gave the batch size
\* ceil(30 / 8) = 4, and a batch of 4 invocations was timed
C18_Witness ==
  /\ pc = "iterate"
  /\ calCount = 2
  /\ calEnd - calStart = 8
  /\ batchSize = MagOf(4)
  /\ Len(times) >= 1
  /\ times[1].num = 16

\* C19: for each size runAnalysis makes exactly `iterations` timed batches;
\* each batch starts by generating a workload of that size that no earlier
\* step used, makes all its invocations on that workload, batchSize of them
\* when it ends, with a batchSize that does not change from the end of the
\* size's calibration to its DataPoint; and the invocations of a
\* calibration are all made on the one workload generated for it, which no
\* timed batch uses.
C19_BatchesOnFreshWorkloads ==
  /\ [](array.id <= allocations)
  /\ [](pc \in {"iterate", "batch"} => Len(times) = i /\ i <= iterations)
  /\ [](pc = "batch" => i < iterations)
  /\ [][Len(dataPoints') > Len(dataPoints) => Len(times) = iterations]_vars
  /\ [][(pc = "iterate" /\ pc' = "batch") =>
          /\ array'.id = allocations + 1
          /\ array'.items = GenerateInputArray(inputSizes[idx])
          /\ b' = MagOf(0)]_vars
  /\ [][(pc = "batch" /\ pc' = "batch") =>
          /\ array' = array
          /\ MagAdd(invocations, b') = MagAdd(invocations', b)]_vars
  /\ [][(pc = "batch" /\ pc' = "iterate") =>
          /\ b = batchSize
          /\ times' = Append(times, [num |-> now - start, den |-> batchSize])]_vars
  /\ [][(pc \in {"iterate", "batch"} /\ pc' \in {"iterate", "batch", "for"}) =>
          batchSize' = batchSize]_vars
  /\ [][(pc = "calibrate" /\ pc' = "calibrate") => array' = array]_vars

\* with a batch size of 4 the second of ten timed batches of a size has
\* ended: the calibration array was the second array generated, the array
\* of this batch is the fourth
C19_Witness ==
  /\ pc = "batch"
  /\ iterations = DefaultIterations
  /\ idx = 1
  /\ i = 1
  /\ batchSize = MagOf(4)
  /\ b = batchSize
  /\ array.id = 4
  /\ allocations = 4

\* ------------------------------------------------------------------------
\* The order of the invocations (under Spec)
\* ------------------------------------------------------------------------

\* the moves of a run from one phase to another
PhaseOrder ==
  { <<"start", "warmup">>, <<"start", "for">>,
    <<"warmup", "for">>, <<"warmup", "threw">>,
    <<"for", "calibrate">>, <<"for", "done">>,
    <<"calibrate", "iterate">>, <<"calibrate", "threw">>,
    <<"iterate", "batch">>, <<"iterate", "for">>, <<"iterate", "threw">>,
    <<"batch", "iterate">>, <<"batch", "threw">> }

\* C20: the invocations of a run are sequential and in the order of the
\* phases: at most one invocation is in progress at any time, and only in
\* the warm-up, a calibration or a timed batch; the warm-up precedes every
\* calibration and does not come back; the timed batches of a size begin
\* when its calibration loop has ended and no calibration of that size
\* follows them; the invocations of a calibration or batch are made on a
\* workload of the size in turn, and the sizes are taken one after the
\* other, a size being left only when its DataPoint is pushed.
C20_SequentialPhases ==
  /\ [](inFlight \in {0, 1})
  /\ [](inFlight = 1 => pc \in {"warmup", "calibrate", "batch"})
  /\ [][inFlight' = 1 => inFlight = 0]_vars
  /\ [][pc' # pc => <<pc, pc'>> \in PhaseOrder]_vars
  /\ [](pc = "warmup" => idx = 1 /\ calCount = 0 /\ dataPoints = <<>>)
  /\ [](pc \in {"iterate", "batch"} =>
          ~((calEnd - calStart) < 5 /\ calCount < 1000000))
  /\ [](pc \in {"calibrate", "iterate", "batch"} =>
          /\ idx \in DOMAIN inputSizes
          /\ Len(dataPoints) = idx - 1
          /\ array.items = GenerateInputArray(inputSizes[idx]))
  /\ [][idx' # idx =>
          /\ idx' = idx + 1
          /\ inFlight = 0
          /\ pc = "iterate"
          /\ pc' = "for"
          /\ Len(dataPoints') = idx]_vars

\* a call of a timed batch of the second size is in progress, after the
\* warm-up, the first size's calibration and batches, and the second size's
\* calibration
C20_Witness ==
  /\ pc = "batch"
  /\ inFlight = 1
  /\ idx = 2
  /\ Len(dataPoints) = 1
  /\ calCount >= 1
  /\ MagLess(MagOf(WarmupIterations + 2), invocations)

\* ------------------------------------------------------------------------
\* The checks after the simplicity step (under SpecClassify)
\* ------------------------------------------------------------------------

\* lines 170-175 for the fits of the result: Constant's RMSE is below 3 times
\* Logarithmic's, and Logarithmic's RMSE is below 10% of the signal magnitude
NearConstantLogarithmic ==
  /\ RmseLessTimes(FindType(Fits, Constant).rmse, FracOfInt(3),
                   FindType(Fits, Logarithmic).rmse)
  /\ BelowTenth(FindType(Fits, Logarithmic).rmse,
                SignalMagnitude(Mean(TimeValues)))

\* Logarithmic is the current best after the simplicity step of candidate k
\* or of a later candidate of the loop of lines 151-182
RECURSIVE LogarithmicIsCurrentBest(_, _, _, _)
LogarithmicIsCurrentBest(models, k, bestModel, meanTime) ==
  IF k > Len(models) THEN FALSE
  ELSE \/ SimplicityStep(bestModel, models[k]).type = Logarithmic
       \/ LogarithmicIsCurrentBest(
            models, k + 1,
            LogCheck(SimplicityStep(bestModel, models[k]), models, meanTime),
            meanTime)

LogarithmicWasBest ==
  LogarithmicIsCurrentBest(Fits, 2, Fits[1], Mean(TimeValues))

\* C21: bestFit is never Logarithmic when Logarithmic's normalized error is
\* below 10% and Constant's RMSE is below 3 times Logarithmic's; and when
\* Logarithmic was the current best at any step of the scan (the last
\* candidate included) in that situation, bestFit is Constant.
C21_ConstantOverLogarithmic ==
  Returned =>
    /\ outcome.value.bestFit = Logarithmic => ~NearConstantLogarithmic
    /\ (LogarithmicWasBest /\ NearConstantLogarithmic) =>
         outcome.value.bestFit = Constant

\* Logarithmic fitted best and was the current best, Constant was not within
\* the 15% tolerance of it and the noise-floor override did not apply, and
\* the check made Constant the result
C21_Witness ==
  /\ Returned
  /\ Fits[1].type = Logarithmic
  /\ LogarithmicWasBest
  /\ NearConstantLogarithmic
  /\ ~WithinTolerance(FindType(Fits, Constant), FindType(Fits, Logarithmic))
  /\ ~IsNoiseFloor(TimeValues)
  /\ outcome.value.bestFit = Constant

\* every duration is 0: the mean is 0 and variance / mean is 0 / 0
AllZero == \A k \in DOMAIN points : points[k].time = 0

\* the model the loop of lines 151-182 ends with, before the final check
ScanChoice == ScanFrom(Fits, 2, Fits[1], Mean(TimeValues))

\* C22: whenever the largest duration is below 0.001 ms and variance / mean
\* of the durations is below 0.1, bestFit is Constant, whatever the RMSE
\* ranking and the scan's choice; and bestFit is Constant as well for a
\* series whose durations are all zero.
C22_NoiseFloorIsConstant ==
  (Returned /\ MaxOf(TimeValues) * 1000 < TicksPerMs
            /\ (AllZero \/ IsNoiseFloor(TimeValues))) =>
    outcome.value.bestFit = Constant

\* durations below 0.001 ms with a low variance / mean whose lowest-RMSE model
\* and the choice of the scan are not Constant, and Constant was returned
C22_Witness ==
  /\ Returned
  /\ IsNoiseFloor(TimeValues)
  /\ ~AllZero
  /\ Fits[1].type # Constant
  /\ ScanChoice.type # Constant
  /\ outcome.value.bestFit = Constant

\* a step that keeps the current best or replaces it by a model of strictly
\* lower rank
KeepsOrLowers(before, after) ==
  after = before \/ after.complexity < before.complexity

\* the simplicity step of candidate k (to afterStep) and the O(log n) check
\* that follows it, then the later candidates
RECURSIVE ScanLowersFrom(_, _, _, _)
ScanStepLowers(models, k, bestModel, afterStep, meanTime) ==
  /\ KeepsOrLowers(bestModel, afterStep)
  /\ KeepsOrLowers(afterStep, LogCheck(afterStep, models, meanTime))
  /\ ScanLowersFrom(models, k + 1, LogCheck(afterStep, models, meanTime), meanTime)

ScanLowersFrom(models, k, bestModel, meanTime) ==
  IF k > Len(models) THEN TRUE
  ELSE ScanStepLowers(models, k, bestModel,
                      SimplicityStep(bestModel, models[k]), meanTime)

\* C23: the model returned as bestFit never has a higher complexity rank than
\* the first model after sorting: each simplicity step, each
\* Constant-over-Logarithmic check and the noise-floor override keeps the
\* current best or replaces it by a model of strictly lower rank.
C23_RankNeverRises ==
  Returned =>
    /\ ScanLowersFrom(Fits, 2, Fits[1], Mean(TimeValues))
    /\ KeepsOrLowers(ScanChoice,
                     NoiseFloorOverride(ScanChoice, Fits, TimeValues))
    /\ outcome.value.bestFit =
         NoiseFloorOverride(ScanChoice, Fits, TimeValues).type
    /\ ComplexityOf(outcome.value.bestFit) <= Fits[1].complexity

\* above the noise floor, the scan replaced the lowest-RMSE model by a model
\* of lower rank that is not Constant
C23_Witness ==
  /\ Returned
  /\ ~IsNoiseFloor(TimeValues)
  /\ ComplexityOf(outcome.value.bestFit) < Fits[1].complexity
  /\ ComplexityOf(outcome.value.bestFit) > 1

\* the fit of the model returned as bestFit
ChosenFit == FindType(Fits, outcome.value.bestFit)

\* the first of the fits, in ascending RMSE, that is not the chosen one
RunnerUp ==
  Fits[CHOOSE k \in DOMAIN Fits :
         /\ Fits[k].type # outcome.value.bestFit
         /\ \A m \in 1..(k - 1) : Fits[m].type = outcome.value.bestFit]

\* C24: the confidence is 100 when the chosen model's RMSE is below 1e-9;
\* otherwise it is round(100 * (0.7 * fitQuality + 0.3 * separation)) with
\* fitQuality = max(0, 1 - 2 * RMSE / mean duration) and the separation taken
\* against the best-fitting model other than the chosen one.
C24_ConfidencePiecewise ==
  Returned =>
    outcome.value.confidence =
      IF RmseBelow(ChosenFit.rmse, Ms(NoiseFloor))
      THEN [nan |-> FALSE, value |-> 100]
      ELSE WeightedConfidence(ChosenFit.rmse, RunnerUp.rmse,
                              NormalizedErrorSq(ChosenFit.rmse, Mean(TimeValues)))

\* the lowest-RMSE model was chosen with an RMSE above the noise floor, and
\* the confidence is a blend strictly between 0 and 100
C24_Witness ==
  /\ Returned
  /\ ~RmseBelow(ChosenFit.rmse, Ms(NoiseFloor))
  /\ outcome.value.bestFit = Fits[1].type
  /\ RunnerUp = Fits[2]
  /\ ~outcome.value.confidence.nan
  /\ outcome.value.confidence.value \in 1..99

\* ------------------------------------------------------------------------
\* Properties of the web front-end (under SpecForm)
\* ------------------------------------------------------------------------

\* C25: at most one analysis request is in flight at a time, the button
\* being disabled (isLoading) while handleSubmit runs; result and error are
\* never both set; when a request's outcome has been handled (a response, an
\* error response, a network or parse failure) isLoading is false and
\* exactly one of result and error is set; and once a response has arrived
\* that point is reached.
C25_OneRequestSettles ==
  /\ [](requests <= 1)
  /\ [](pc # "idle" => isLoading)
  /\ [](result = Null \/ error = Null)
  /\ [][(pc \in {"fetching", "parsing"} /\ pc' = "idle") =>
          /\ ~isLoading'
          /\ requests' = 0
          /\ (result' = Null) # (error' = Null)]_vars
  /\ (pc = "parsing") ~> (pc = "idle" /\ ~isLoading)

\* a request was answered with an analysis of low confidence: the result is
\* set, the error is not, and the button is enabled again
C25_Witness ==
  /\ pc = "idle"
  /\ ~isLoading
  /\ requests = 0
  /\ result # Null
  /\ error = Null
  /\ ~isBigOVisible

\* C26: for every integer value of the form's fields, building inputSizes
\* ends and the request is sent: a submitted form leads to a fetch.
C26_RequestEventuallySent ==
  (pc \in {"build", "send"}) ~> (pc = "fetching")

\* the 'linear' strategy with step 0 and start <= end: the loop pushed until
\* the array could not grow, and no request was sent
C26_Witness ==
  /\ pc = "exhausted"
  /\ linearStep = 0
  /\ linearStart <= linearEnd
  /\ requests = 0
  /\ isLoading

====
